---------------------------- MODULE Spec2Model ----------------------------
(***************************************************************************)
(* xfa2json: extraction of the XFA XML payload of a PDF and its conversion *)
(* to XML, JSON, YAML or CSV (src/xfa.py).                                  *)
(*                                                                         *)
(* Python values are tagged records:                                       *)
(*   None                      [t |-> "none"]                              *)
(*   str                       [t |-> "str",  v |-> "..."]                 *)
(*   dict (insertion ordered)  [t |-> "dict", items |-> <<<<k, v>>, ...>>] *)
(*   list                      [t |-> "list", elems |-> <<v, ...>>]        *)
(* A dict's items are a sequence of <<key, value>> pairs with distinct     *)
(* keys, in insertion order.                                               *)
(***************************************************************************)
EXTENDS Integers, Sequences, FiniteSets, TLC

VARIABLES
    \* PayloadLocator (Xfa.find_in_dict)
    haystack,   \* the nested mapping searched
    found,      \* what find_in_dict returned
    lpc,        \* "call" before the search, "done" after
    \* TreeBuilder (Xfa.xml_to_dict / Xfa.element_to_dict)
    element,    \* the root element ET.fromstring produced
    tree,       \* what xml_to_dict returned
    tpc,
    \* Flattener (Xfa._flatten_dict as consumed by Xfa.to_csv)
    nested,     \* the nested map handed to the flattener
    flat,       \* dict(_flatten_dict(nested))
    fpc,
    \* FormatConverter (Xfa.save / Xfa.convert / Xfa.to_xml ...)
    ext,               \* the output kind requested
    resolved_objects,  \* pdf_reader.resolved_objects
    outfile,           \* the file <filepath>.<ext>: Absent, or its content
    pc,                \* where the call of save is
    objects,           \* to_xml's objects
    idx,               \* the position of to_xml's loop in objects
    resolved,          \* the positions whose stream was read, in time order
    xml,               \* to_xml's xml
    ret,               \* the text convert returned
    exc                \* the exception that left save

locatorVars == <<haystack, found, lpc>>
treeVars == <<element, tree, tpc>>
flattenVars == <<nested, flat, fpc>>
saveVars == <<ext, resolved_objects, outfile, pc, objects, idx, resolved, xml,
              ret, exc>>
vars == <<locatorVars, treeVars, flattenVars, saveVars>>

---------------------------------------------------------------------------
(* Python values *)

None == [t |-> "none"]
Str(s) == [t |-> "str", v |-> s]
Dict(items) == [t |-> "dict", items |-> items]
List(elems) == [t |-> "list", elems |-> elems]

\* isinstance(value, dict), isinstance(value, list)
IsDict(value) == value.t = "dict"
IsList(value) == value.t = "list"

\* key in d
HasKey(items, key) == \E j \in 1..Len(items) : items[j][1] = key

\* d[key], for a key of d
Get(items, key) == items[CHOOSE j \in 1..Len(items) : items[j][1] = key][2]

\* d[key] = value: an existing key keeps its position, a new key goes last
SetItem(items, key, value) ==
    IF HasKey(items, key)
    THEN [j \in 1..Len(items) |->
            IF items[j][1] = key THEN <<key, value>> ELSE items[j]]
    ELSE Append(items, <<key, value>>)

\* d.update(pairs) and dict(pairs): the pairs are set one after the other
RECURSIVE Update(_, _)
Update(items, pairs) ==
    IF pairs = <<>> THEN items
    ELSE Update(SetItem(items, pairs[1][1], pairs[1][2]), Tail(pairs))

---------------------------------------------------------------------------
(* PayloadLocator *)

\* the key Xfa.data and Xfa.to_xml search for
Needle == "/XFA"

\* A value whose access haystack[key] raises (a malformed PDF object).
Failing == [t |-> "fail"]
\* the exception a failed access raises
Raised == [t |-> "raise"]

\* value = haystack[key]
GetItem(entry) == IF entry[2] = Failing THEN Raised ELSE entry[2]

\* find_in_dict with the try/except around the access removed: the failure
\* of haystack[key] leaves the function.
RECURSIVE find_in_dict_unguarded(_, _)
find_in_dict_unguarded(needle, items) ==
    IF items = <<>> THEN None
    ELSE LET key == items[1][1]
             value == GetItem(items[1])
         IN  IF value = Raised THEN Raised
             ELSE IF key = needle THEN value
             ELSE IF IsDict(value)
                  THEN LET item == find_in_dict_unguarded(needle, value.items)
                       IN  IF item /= None THEN item
                           ELSE find_in_dict_unguarded(needle, Tail(items))
                  ELSE find_in_dict_unguarded(needle, Tail(items))

\* find_in_dict returning whatever the search of the first nested mapping
\* gives, without the "is not None" test.
RECURSIVE find_in_dict_first_mapping(_, _)
find_in_dict_first_mapping(needle, items) ==
    IF items = <<>> THEN None
    ELSE LET key == items[1][1]
             value == GetItem(items[1])
         IN  IF value = Raised
             THEN find_in_dict_first_mapping(needle, Tail(items))
             ELSE IF key = needle THEN value
             ELSE IF IsDict(value)
                  THEN find_in_dict_first_mapping(needle, value.items)
                  ELSE find_in_dict_first_mapping(needle, Tail(items))

\* Xfa.find_in_dict(needle, haystack): the loop over haystack.keys() is the
\* recursion on the remaining items; falling off the loop returns None.
RECURSIVE find_in_dict(_, _)
find_in_dict(needle, items) ==
    IF items = <<>> THEN None
    ELSE LET key == items[1][1]
             value == GetItem(items[1])
         IN  IF value = Raised
             THEN find_in_dict(needle, Tail(items))          \* except: continue
             ELSE IF key = needle THEN value
             ELSE IF IsDict(value)
                  THEN LET item == find_in_dict(needle, value.items)
                       IN  IF item /= None THEN item
                           ELSE find_in_dict(needle, Tail(items))
                  ELSE find_in_dict(needle, Tail(items))

\* Bound: the number of entries of the haystack, nested ones included.
MaxEntries == 4

HaystackKeys == {"/XFA", "a"}
HaystackLeaves == {Str("v1"), Str("v2"), None, Failing}

\* The insertion-ordered mappings over keys with n entries at most in all,
\* whose values are leaves or such mappings.
RECURSIVE Mappings(_, _, _)
Mappings(keys, leaves, n) ==
    IF n = 0 THEN {<<>>}
    ELSE {<<>>} \cup UNION {
        { <<p[1]>> \o p[2] :
            p \in { q \in (keys \X (leaves \cup
                                     {Dict(m) : m \in Mappings(keys, leaves, i)}))
                          \X Mappings(keys, leaves, n - 1 - i) :
                      ~HasKey(q[2], q[1][1]) } }
        : i \in 0..(n - 1) }

\* The components a specification leaves out stay as they are here.
LocatorOff == haystack = <<>> /\ found = None /\ lpc = "off"
TreeOff == element = None /\ tree = None /\ tpc = "off"
FlattenOff == nested = <<>> /\ flat = <<>> /\ fpc = "off"
SaveOff ==
    /\ ext = "" /\ resolved_objects = <<>> /\ outfile = None /\ pc = "off"
    /\ objects = None /\ idx = 0 /\ resolved = <<>> /\ xml = None
    /\ ret = None /\ exc = None

InitLocator ==
    /\ haystack \in Mappings(HaystackKeys, HaystackLeaves, MaxEntries)
    /\ found = None
    /\ lpc = "call"
    /\ TreeOff /\ FlattenOff /\ SaveOff

\* objects = self.find_in_dict('/XFA', pdf_reader.resolved_objects)
Find ==
    /\ lpc = "call"
    /\ found' = find_in_dict(Needle, haystack)
    /\ lpc' = "done"
    /\ UNCHANGED <<haystack, treeVars, flattenVars, saveVars>>

NextLocator == Find

SpecLocator == InitLocator /\ [][NextLocator]_vars

---------------------------------------------------------------------------
(* Properties of the PayloadLocator *)

\* key occurs as a key of the mapping at the given depth (1 = top level)
RECURSIVE KeyAtDepth(_, _, _)
KeyAtDepth(key, items, depth) ==
    IF depth = 1 THEN HasKey(items, key)
    ELSE \E j \in 1..Len(items) :
            IsDict(items[j][2]) /\ KeyAtDepth(key, items[j][2].items, depth - 1)

\* key occurs as a key of the mapping at some depth
RECURSIVE ContainsKey(_, _)
ContainsKey(key, items) ==
    \E j \in 1..Len(items) :
        \/ items[j][1] = key
        \/ IsDict(items[j][2]) /\ ContainsKey(key, items[j][2].items)

\* the mapping without the keys whose access fails, at every depth
RECURSIVE RemoveFailing(_)
RemoveFailing(items) ==
    IF items = <<>> THEN <<>>
    ELSE LET e == items[1]
         IN  IF e[2] = Failing THEN RemoveFailing(Tail(items))
             ELSE IF IsDict(e[2])
                  THEN <<<<e[1], Dict(RemoveFailing(e[2].items))>>>>
                           \o RemoveFailing(Tail(items))
                  ELSE <<e>> \o RemoveFailing(Tail(items))

\* some key's access fails, at some depth
RECURSIVE HasFailing(_)
HasFailing(items) ==
    \E j \in 1..Len(items) :
        \/ items[j][2] = Failing
        \/ IsDict(items[j][2]) /\ HasFailing(items[j][2].items)

\* the needle is a top-level key whose access succeeds
NeedleAtTop == HasKey(haystack, Needle) /\ Get(haystack, Needle) /= Failing

\* no top-level key before the needle holds a mapping that contains the needle
NoEarlierNeedle ==
    \A j \in 1..Len(haystack) :
        (\E k \in (j + 1)..Len(haystack) : haystack[k][1] = Needle)
            => ~(IsDict(haystack[j][2]) /\ ContainsKey(Needle, haystack[j][2].items))

\* C2 as stated: with the needle at depth 1 and at depth 3, the search
\* returns the depth-1 value, whatever the arrangement of the other keys.
C2_ShallowestWins ==
    (lpc = "done" /\ NeedleAtTop /\ KeyAtDepth(Needle, haystack, 3))
        => found = Get(haystack, Needle)

\* C2 amended: with the needle at depth 1, the search returns the depth-1
\* value when no key before it at depth 1 holds a mapping that contains the
\* needle.
C2_TopWinsUnlessEarlierNested ==
    (lpc = "done" /\ NeedleAtTop /\ NoEarlierNeedle)
        => found = Get(haystack, Needle)

\* the needle at depth 1 and at depth 3, behind it: the depth-1 value returned
C2_Witness ==
    /\ lpc = "done" /\ NeedleAtTop /\ NoEarlierNeedle
    /\ KeyAtDepth(Needle, haystack, 3)
    /\ Len(haystack) = 2 /\ haystack[1][1] = Needle
    /\ found = Str("v1")

\* a value without the keys whose access fails
WithoutFailing(value) ==
    IF IsDict(value) THEN Dict(RemoveFailing(value.items)) ELSE value

\* C9: the search never fails on keys whose access fails; it returns what
\* it returns on the mapping with those keys removed (the value found being
\* compared without the failing keys it may itself hold).
C9_FailingKeysSkipped ==
    lpc = "done" =>
        /\ found /= Raised
        /\ WithoutFailing(found) = find_in_dict(Needle, RemoveFailing(haystack))

\* a failing key before and above a needle that is still returned
C9_Witness ==
    /\ lpc = "done"
    /\ Len(haystack) = 2
    /\ haystack[1][2] = Failing
    /\ IsDict(haystack[2][2])
    /\ HasFailing(haystack[2][2].items)
    /\ found = Str("v2")

---------------------------------------------------------------------------
(* TreeBuilder *)

\* An element of xml.etree.ElementTree: its tag, its attributes (element.attrib,
\* name/value pairs with distinct names), its text (None when it has none)
\* and its child elements, list(element), in document order.
Element(tag, attrib, text, children) ==
    [t |-> "element", tag |-> tag, attrib |-> attrib, text |-> text,
     children |-> children]

\* the loop body with the promotion to a list left out: d[key] = value
AddChildOverwriting(d, key, value) == SetItem(d, key, value)

\* The body of the loop over the children:
\*   if key in d: (if d[key] is no list: d[key] = [d[key]]); d[key].append(value)
\*   else: d[key] = value
AddChild(d, key, value) ==
    IF HasKey(d, key)
    THEN LET old == Get(d, key)
             lst == IF IsList(old) THEN old ELSE List(<<old>>)
         IN  SetItem(d, key, List(Append(lst.elems, value)))
    ELSE SetItem(d, key, value)

\* attributes that leave the keys the children have set alone
MergeAttribKeepingChildren(d, attrib) ==
    Update(d, SelectSeq(attrib, LAMBDA a : ~HasKey(d, a[1])))

\* d.update(element.attrib)
MergeAttrib(d, attrib) == Update(d, attrib)

\* Xfa.element_to_dict(element); AddChildren is its loop over the children.
RECURSIVE element_to_dict(_), AddChildren(_, _)
element_to_dict(e) ==
    IF e.children = <<>> /\ e.attrib = <<>>
    THEN e.text
    ELSE Dict(MergeAttrib(AddChildren(<<>>, e.children), e.attrib))

AddChildren(d, children) ==
    IF children = <<>> THEN d
    ELSE AddChildren(AddChild(d, children[1].tag, element_to_dict(children[1])),
                     Tail(children))

\* Xfa.xml_to_dict(xml_str), on the root ET.fromstring(xml_str) returns
xml_to_dict(root) == element_to_dict(root)

\* Bound: the number of elements of the document, the root included.
MaxElements == 4

Tags == {"x", "item"}
Texts == {None, Str("a"), Str("b")}
Attribs == {<<>>, <<<<"x", Str("attr")>>>>}

\* The sequences of sibling elements with n elements in all. An element with
\* children carries no text of its own (element_to_dict does not read it).
RECURSIVE Forests(_)
Forests(n) ==
    IF n = 0 THEN {<<>>}
    ELSE UNION {
        { <<Element(p[1], p[2], p[3], p[4])>> \o p[5] :
            p \in Tags \X Attribs \X (IF i = 0 THEN Texts ELSE {None})
                      \X Forests(i) \X Forests(n - 1 - i) }
        : i \in 0..(n - 1) }

ForestsUpTo(n) == UNION { Forests(k) : k \in 0..n }

InitTree ==
    /\ \E tag \in Tags, attrib \in Attribs, text \in Texts,
          children \in ForestsUpTo(MaxElements - 1) :
            /\ children /= <<>> => text = None
            /\ element = Element(tag, attrib, text, children)
    /\ tree = None
    /\ tpc = "call"
    /\ LocatorOff /\ FlattenOff /\ SaveOff

\* self.xml_to_dict(xml)
Parse ==
    /\ tpc = "call"
    /\ tree' = xml_to_dict(element)
    /\ tpc' = "done"
    /\ UNCHANGED <<element, locatorVars, flattenVars, saveVars>>

NextTree == Parse

SpecTree == InitTree /\ [][NextTree]_vars

---------------------------------------------------------------------------
(* Properties of the TreeBuilder *)

\* the children of e with the given tag, in document order
ChildrenTagged(e, tag) == SelectSeq(e.children, LAMBDA c : c.tag = tag)

ChildTags(e) == {e.children[j].tag : j \in 1..Len(e.children)}
AttribNames(e) == {e.attrib[j][1] : j \in 1..Len(e.attrib)}

\* node holds, for every tag of tags repeated among the children of e, the
\* list of those children's trees in document order; and so do the nodes of
\* the children, for the tags no attribute of theirs hides.
RECURSIVE RepeatedKept(_, _, _)
RepeatedKept(e, node, tags) ==
    \A g \in tags :
        LET cs == ChildrenTagged(e, g)
        IN  /\ IsDict(node)
            /\ HasKey(node.items, g)
            /\ LET held == Get(node.items, g)
               IN  IF Len(cs) >= 2
                   THEN /\ IsList(held)
                        /\ Len(held.elems) = Len(cs)
                        /\ \A j \in 1..Len(cs) :
                              /\ held.elems[j] = element_to_dict(cs[j])
                              /\ RepeatedKept(cs[j], held.elems[j],
                                     ChildTags(cs[j]) \ AttribNames(cs[j]))
                   ELSE RepeatedKept(cs[1], held,
                            ChildTags(cs[1]) \ AttribNames(cs[1]))

\* C1 as stated: the result is a map with the root's tag as its one key,
\* holding the tree built from the root element.
C1_RootTagKeyed ==
    tpc = "done" => tree = Dict(<<<<element.tag, element_to_dict(element)>>>>)

\* C4 as stated: every tag repeated k >= 2 times among an element's children
\* holds the list of the k trees in document order, whatever the attributes.
C4_RepeatedKeptAlways ==
    tpc = "done" => RepeatedKept(element, tree, ChildTags(element))

\* C4 amended: every tag repeated k >= 2 times among an element's children,
\* and not the name of an attribute of that element, holds the list of the k
\* trees in document order.
C4_RepeatedKeptUnlessAttribute ==
    tpc = "done" =>
        RepeatedKept(element, tree, ChildTags(element) \ AttribNames(element))

\* three children of one tag, among others, under a root with an attribute
C4_Witness ==
    /\ tpc = "done"
    /\ element.attrib /= <<>>
    /\ Len(ChildrenTagged(element, "item")) = 3
    /\ IsDict(tree)
    /\ Get(tree.items, "item") = List(<<Str("b"), None, Str("a")>>)

\* C8: an attribute named like a child holds its own value in the map.
C8_AttributeWins ==
    tpc = "done" =>
        \A j \in 1..Len(element.attrib) :
            element.attrib[j][1] \in ChildTags(element)
                => /\ IsDict(tree)
                   /\ HasKey(tree.items, element.attrib[j][1])
                   /\ Get(tree.items, element.attrib[j][1]) = element.attrib[j][2]

\* <root x="attr"><x>a</x><x>b</x></root>: x holds "attr"
C8_Witness ==
    /\ tpc = "done"
    /\ element.attrib = <<<<"x", Str("attr")>>>>
    /\ Len(ChildrenTagged(element, "x")) = 2
    /\ tree = Dict(<<<<"x", Str("attr")>>>>)

---------------------------------------------------------------------------
(* Flattener *)

\* new_key = f"{parent_key}{sep}{key}" if parent_key else key
NewKey(parent_key, sep, key) ==
    IF parent_key /= "" THEN parent_key \o sep \o key ELSE key

\* Xfa._flatten_dict(d, parent_key, sep): the list of the flattened
\* (key, value) pairs; the loop over d.items() is the recursion on the
\* remaining items.
RECURSIVE flatten_dict(_, _, _)
flatten_dict(items, parent_key, sep) ==
    IF items = <<>> THEN <<>>
    ELSE LET new_key == NewKey(parent_key, sep, items[1][1])
             value == items[1][2]
         IN  (IF IsDict(value)
              THEN flatten_dict(value.items, new_key, sep)
              ELSE <<<<new_key, value>>>>)
             \o flatten_dict(Tail(items), parent_key, sep)

\* flattened_dict = dict(self._flatten_dict(json_dict)) of Xfa.to_csv
FlattenedDict(items) == Update(<<>>, flatten_dict(items, "", "_"))

\* Bound: the number of entries of the nested map, nested ones included.
MaxNestedEntries == 3

NestedKeys == {"a", "b", "a_b"}
NestedLeaves == {Str("1"), Str("2"), List(<<Str("1"), Str("2")>>)}

InitFlatten ==
    /\ nested \in Mappings(NestedKeys, NestedLeaves, MaxNestedEntries)
    /\ flat = <<>>
    /\ fpc = "call"
    /\ LocatorOff /\ TreeOff /\ SaveOff

Flatten ==
    /\ fpc = "call"
    /\ flat' = FlattenedDict(nested)
    /\ fpc' = "done"
    /\ UNCHANGED <<nested, locatorVars, treeVars, saveVars>>

NextFlatten == Flatten

SpecFlatten == InitFlatten /\ [][NextFlatten]_vars

---------------------------------------------------------------------------
(* Properties of the Flattener *)

\* the key path joined with the separator
RECURSIVE JoinPath(_, _)
JoinPath(path, sep) ==
    IF Len(path) = 1 THEN path[1]
    ELSE path[1] \o sep \o JoinPath(Tail(path), sep)

\* the <<key path, value>> of every non-map value of the nested map
RECURSIVE LeafPaths(_, _)
LeafPaths(items, prefix) ==
    UNION { IF IsDict(items[j][2])
            THEN LeafPaths(items[j][2].items, Append(prefix, items[j][1]))
            ELSE {<<Append(prefix, items[j][1]), items[j][2]>>}
          : j \in 1..Len(items) }

\* C5 as stated: the record holds, for every non-map value reached through a
\* key path, the entry from the joined path to that value; no leaf is missing.
C5_EveryLeafKept ==
    fpc = "done" =>
        \A leaf \in LeafPaths(nested, <<>>) :
            /\ HasKey(flat, JoinPath(leaf[1], "_"))
            /\ Get(flat, JoinPath(leaf[1], "_")) = leaf[2]

---------------------------------------------------------------------------
(* FormatConverter: save, convert, to_xml, to_json, to_yaml, to_csv *)

\* The file <filepath>.<ext>
Absent == [t |-> "absent"]
File(content) == [t |-> "file", content |-> content]
OldFile == File(Str("old"))

\* Exceptions
Exc(type, msg) == [t |-> "exc", type |-> type, msg |-> msg]
IsExc(v) == v.t = "exc"
NoXmlData == Exc("Exception", "No XML data found in PDF.")
JsonFailed == Exc("Exception", "JSON data failed to load.")
InvalidFormat == Exc("Exception", "Invalid output format.")
NotIterable == Exc("TypeError", "'NoneType' object is not iterable")
NoItems == Exc("AttributeError", "object has no attribute 'items'")
DecodeError == Exc("UnicodeDecodeError", "invalid start byte")
ParseError == Exc("ParseError", "not well-formed")

\* A stream of the PDF: the bytes the signature is searched in, word by
\* word, and the document an XML parser reads from them (Malformed when
\* they are not well-formed XML).
Malformed == [t |-> "malformed"]
Stream(bytes, doc) == [bytes |-> bytes, doc |-> doc]
InvalidByte == "\\xff"

\* pypdf.generic.IndirectObject; obj.get_object().get_data() is its stream
Ref(stream) == [t |-> "ref", stream |-> stream]
IsIndirectObject(obj) == obj.t = "ref"

\* b'datasets xmlns'
Signature == <<"datasets", "xmlns">>

\* re.search(pattern, data): the pattern occurs somewhere in data
re_search(pattern, data) ==
    \E i \in 1..(Len(data) - Len(pattern) + 1) :
        SubSeq(data, i, i + Len(pattern) - 1) = pattern

\* Text: the characters and the document they spell
Text(chars, doc) == [t |-> "text", chars |-> chars, doc |-> doc]

\* actual_obj.decode("utf-8")
Decode(stream) ==
    IF \E i \in 1..Len(stream.bytes) : stream.bytes[i] = InvalidByte
    THEN DecodeError
    ELSE Text(stream.bytes, stream.doc)

\* ET.fromstring(text)
ET_fromstring(text) == IF text.doc = Malformed THEN ParseError ELSE text.doc

\* ET.indent(root, space='  '), ET.tostring(root) and the declaration in front
XmlDeclaration == "<?xml version=\"1.0\" encoding=\"UTF-8\"?>"
Pretty(root) == Text(<<XmlDeclaration, "indent", "tostring">>, root)

\* Python's "not value"
Not(value) ==
    \/ value = None
    \/ value.t = "str" /\ value.v = ""
    \/ value.t = "dict" /\ value.items = <<>>
    \/ value.t = "list" /\ value.elems = <<>>

\* The order of the keys of the model as Python's sorted() orders them.
KeyOrder == <<"a", "a_b", "b", "data", "item", "root", "x">>
KeyRank(key) == CHOOSE j \in 1..Len(KeyOrder) : KeyOrder[j] = key

RECURSIVE InsertSorted(_, _)
InsertSorted(items, e) ==
    IF items = <<>> THEN <<e>>
    ELSE IF KeyRank(e[1]) < KeyRank(items[1][1]) THEN <<e>> \o items
    ELSE <<items[1]>> \o InsertSorted(Tail(items), e)

\* the value as json.dumps(value, sort_keys=True) writes it
RECURSIVE SortKeys(_), SortItems(_, _)
SortKeys(value) ==
    IF IsDict(value) THEN Dict(SortItems(value.items, <<>>))
    ELSE IF IsList(value)
         THEN List([j \in 1..Len(value.elems) |-> SortKeys(value.elems[j])])
         ELSE value

SortItems(items, done) ==
    IF items = <<>> THEN done
    ELSE SortItems(Tail(items),
                   InsertSorted(done, <<items[1][1], SortKeys(items[1][2])>>))

\* json.dumps(value, indent=4, sort_keys=True) and json.loads
json_dumps(value) == [t |-> "json", indent |-> 4, value |-> SortKeys(value)]
json_loads(text) == text.value

\* yaml.dump(value, default_flow_style=False)
yaml_dump(value) == [t |-> "yaml", flow |-> FALSE, value |-> value]

\* csv.DictWriter: writeheader and one writerow
csv_write(items) ==
    [t |-> "csv",
     header |-> [j \in 1..Len(items) |-> items[j][1]],
     row |-> [j \in 1..Len(items) |-> items[j][2]]]

\* Xfa.to_json, on the text to_xml returned
to_json(text) == json_dumps(xml_to_dict(ET_fromstring(text)))

\* Xfa.to_yaml
to_yaml(text) == yaml_dump(json_loads(to_json(text)))

\* to_csv without the test of json_dict
to_csv_unchecked(text) ==
    LET json_dict == json_loads(to_json(text))
    IN  IF ~IsDict(json_dict) THEN NoItems
        ELSE csv_write(FlattenedDict(json_dict.items))

\* Xfa.to_csv
to_csv(text) ==
    LET json_dict == json_loads(to_json(text))
    IN  IF Not(json_dict) THEN JsonFailed
        ELSE IF ~IsDict(json_dict) THEN NoItems     \* d.items() of a str
        ELSE csv_write(FlattenedDict(json_dict.items))

\* One turn of to_xml's loop without the break: the search goes on.
VisitNoBreak(obj, text) ==
    IF IsIndirectObject(obj)
    THEN IF re_search(Signature, obj.stream.bytes)
         THEN LET decoded == Decode(obj.stream)
              IN  IF IsExc(decoded)
                  THEN [read |-> TRUE, xml |-> text, stop |-> FALSE, exc |-> decoded]
                  ELSE [read |-> TRUE, xml |-> decoded, stop |-> FALSE, exc |-> None]
         ELSE [read |-> TRUE, xml |-> text, stop |-> FALSE, exc |-> None]
    ELSE [read |-> FALSE, xml |-> text, stop |-> FALSE, exc |-> None]

\* One turn of to_xml's loop on obj: whether the stream is read, the xml
\* after it, whether the loop is left (break) and the exception raised.
Visit(obj, text) ==
    IF IsIndirectObject(obj)
    THEN IF re_search(Signature, obj.stream.bytes)
         THEN LET decoded == Decode(obj.stream)
              IN  IF IsExc(decoded)
                  THEN [read |-> TRUE, xml |-> text, stop |-> FALSE, exc |-> decoded]
                  ELSE [read |-> TRUE, xml |-> decoded, stop |-> TRUE, exc |-> None]
         ELSE [read |-> TRUE, xml |-> text, stop |-> FALSE, exc |-> None]
    ELSE [read |-> FALSE, xml |-> text, stop |-> FALSE, exc |-> None]

\* Bound: the number of elements of the /XFA array.
MaxCandidates == 3

Kinds == {"json", "xml", "yaml", "csv"}
Requested == Kinds \cup {"bogus"}

EmptyRoot == Element("root", <<>>, None, <<>>)
TextRoot == Element("root", <<>>, Str("a"), <<>>)
DataRoot == Element("root", <<>>, None,
                    <<Element("x", <<>>, Str("value"), <<>>),
                      Element("data", <<>>, Str("value"), <<>>)>>)
Docs == {Malformed, EmptyRoot, TextRoot, DataRoot}

\* What the /XFA array holds: names, and references to streams.
Candidates ==
    {Str("datasets")}
        \cup {Ref(Stream(<<"<xfa:", "template", "xmlns">>, Malformed))}
        \cup {Ref(Stream(<<"<xfa:", "datasets", "xmlns", InvalidByte>>, Malformed))}
        \cup {Ref(Stream(<<"<xfa:", "datasets", "xmlns">>, doc)) : doc \in Docs}

CandidateSeqs(n) == UNION { [1..k -> Candidates] : k \in 0..n }

\* The object graphs: without /XFA, with /XFA at the top, with /XFA nested.
Graphs(cands) ==
    { <<<<"/Root", Dict(<<<<"/AcroForm", Dict(<<>>)>>>>)>>>>,
      <<<<"/XFA", List(cands)>>>>,
      <<<<"/Root", Dict(<<<<"/AcroForm", Dict(<<<<"/XFA", List(cands)>>>>)>>>>)>>>> }

InitSave ==
    /\ ext \in Requested
    /\ \E cands \in CandidateSeqs(MaxCandidates) : resolved_objects \in Graphs(cands)
    /\ outfile \in {Absent, OldFile}
    /\ pc = "save"
    /\ objects = None /\ idx = 0 /\ resolved = <<>> /\ xml = None
    /\ ret = None /\ exc = None
    /\ LocatorOff /\ TreeOff /\ FlattenOff

\* save: with open(f"{self.filepath}.{ext}", "w") as f
SaveOpen ==
    /\ pc = "save"
    /\ outfile' = File(Str(""))
    /\ pc' = "convert"
    /\ UNCHANGED <<locatorVars, treeVars, flattenVars,
                 ext, resolved_objects, objects, idx, resolved, xml, ret, exc>>

\* convert: the dispatch on output
Convert ==
    /\ pc = "convert"
    /\ IF ext \in Kinds
       THEN pc' = "to_xml" /\ exc' = exc
       ELSE pc' = "failed" /\ exc' = InvalidFormat
    /\ UNCHANGED <<locatorVars, treeVars, flattenVars,
                 ext, resolved_objects, outfile, objects, idx, resolved, xml, ret>>

\* to_xml: objects = self.find_in_dict('/XFA', ...); for _, obj in enumerate(objects)
ToXmlLocate ==
    /\ pc = "to_xml"
    /\ objects' = find_in_dict(Needle, resolved_objects)
    /\ IF objects' = None
       THEN pc' = "failed" /\ exc' = NotIterable /\ idx' = idx
       ELSE pc' = "loop" /\ exc' = exc /\ idx' = 1
    /\ UNCHANGED <<locatorVars, treeVars, flattenVars,
                 ext, resolved_objects, outfile, resolved, xml, ret>>

\* to_xml: one turn of the loop
ToXmlLoop ==
    /\ pc = "loop"
    /\ idx <= Len(objects.elems)
    /\ LET v == Visit(objects.elems[idx], xml)
       IN  /\ resolved' = IF v.read THEN Append(resolved, idx) ELSE resolved
           /\ xml' = v.xml
           /\ exc' = v.exc
           /\ pc' = IF v.exc /= None THEN "failed"
                    ELSE IF v.stop THEN "after_loop" ELSE "loop"
           /\ idx' = IF v.exc /= None \/ v.stop THEN idx ELSE idx + 1
    /\ UNCHANGED <<locatorVars, treeVars, flattenVars,
                 ext, resolved_objects, outfile, objects, ret>>

\* to_xml: the loop is exhausted
ToXmlLoopEnd ==
    /\ pc = "loop"
    /\ idx > Len(objects.elems)
    /\ pc' = "after_loop"
    /\ UNCHANGED <<locatorVars, treeVars, flattenVars,
                 ext, resolved_objects, outfile, objects, idx, resolved, xml, ret, exc>>

\* to_xml: if not xml: raise; else parse, indent, serialize, return
ToXmlFinish ==
    /\ pc = "after_loop"
    /\ IF Not(xml)
       THEN pc' = "failed" /\ exc' = NoXmlData /\ xml' = xml
       ELSE LET root == ET_fromstring(xml)
            IN  IF IsExc(root)
                THEN pc' = "failed" /\ exc' = root /\ xml' = xml
                ELSE pc' = "serialize" /\ exc' = exc /\ xml' = Pretty(root)
    /\ UNCHANGED <<locatorVars, treeVars, flattenVars,
                 ext, resolved_objects, outfile, objects, idx, resolved, ret>>

\* convert: what to_json, to_yaml or to_csv make of to_xml's text
Serialize ==
    /\ pc = "serialize"
    /\ LET r == CASE ext = "xml" -> xml
                  [] ext = "json" -> to_json(xml)
                  [] ext = "yaml" -> to_yaml(xml)
                  [] ext = "csv" -> to_csv(xml)
       IN  IF IsExc(r)
           THEN pc' = "failed" /\ exc' = r /\ ret' = ret
           ELSE pc' = "write" /\ exc' = exc /\ ret' = r
    /\ UNCHANGED <<locatorVars, treeVars, flattenVars,
                 ext, resolved_objects, outfile, objects, idx, resolved, xml>>

\* save: f.write(self.convert(ext)), and the file is closed
SaveWrite ==
    /\ pc = "write"
    /\ outfile' = File(ret)
    /\ pc' = "done"
    /\ UNCHANGED <<locatorVars, treeVars, flattenVars,
                 ext, resolved_objects, objects, idx, resolved, xml, ret, exc>>

NextSave ==
    \/ SaveOpen
    \/ Convert
    \/ ToXmlLocate
    \/ ToXmlLoop
    \/ ToXmlLoopEnd
    \/ ToXmlFinish
    \/ Serialize
    \/ SaveWrite

SpecSave == InitSave /\ [][NextSave]_vars

---------------------------------------------------------------------------
(* Properties of the FormatConverter *)

\* the /XFA array of the object graph, when it has one
HasCandidates == ContainsKey(Needle, resolved_objects)
Cands == IF HasKey(resolved_objects, Needle)
         THEN Get(resolved_objects, Needle).elems
         ELSE resolved_objects[1][2].items[1][2].items[1][2].elems

\* the positions up to n that hold a Reference, in sequence order
RefPositions(cands, n) ==
    LET RECURSIVE From(_)
        From(j) == IF j > n THEN <<>>
                   ELSE IF IsIndirectObject(cands[j]) THEN <<j>> \o From(j + 1)
                   ELSE From(j + 1)
    IN  From(1)

\* the positions of the References whose stream holds the signature
Matching(cands) ==
    {j \in 1..Len(cands) :
        /\ IsIndirectObject(cands[j])
        /\ \E i \in 1..Len(cands[j].stream.bytes) :
              /\ cands[j].stream.bytes[i] = "datasets"
              /\ i < Len(cands[j].stream.bytes)
              /\ cands[j].stream.bytes[i + 1] = "xmlns"}

FirstMatching(cands) ==
    CHOOSE j \in Matching(cands) : \A k \in Matching(cands) : j <= k

Ended == pc \in {"done", "failed"}

\* C3 as stated: when the conversion fails, the failure reaches the caller
\* and the output file is neither created, truncated nor written.
C3_NoFileOnFailure ==
    pc = "failed" => (exc /= None /\ outfile \in {Absent, OldFile})

\* the payload was extracted and parsed, and its tree is empty
EmptyTreeBuilt ==
    /\ Ended
    /\ xml /= None
    /\ xml.chars[1] = XmlDeclaration
    /\ xml.doc.children = <<>> /\ xml.doc.attrib = <<>> /\ xml.doc.text = None

\* C6 as stated: on an empty tree, convert to json and convert to csv fail
\* with the empty-payload failure and return no text.
C6_EmptyFailsJsonAndCsv ==
    (EmptyTreeBuilt /\ ext \in {"json", "csv"})
        => (pc = "failed" /\ exc = JsonFailed /\ ret = None)

\* C6 amended: on an empty tree, convert to csv fails with the empty-payload
\* failure and returns no text; convert to json does not fail and returns
\* the JSON text null.
C6_EmptyFailsCsvOnly ==
    EmptyTreeBuilt =>
        /\ ext = "csv" => (pc = "failed" /\ exc = JsonFailed /\ ret = None)
        /\ ext = "json" => (pc = "done" /\ exc = None /\ ret = json_dumps(None))

\* csv asked of a payload whose root is empty, after a name and a stream
\* without the signature: the empty-payload failure
C6_Witness ==
    /\ EmptyTreeBuilt
    /\ ext = "csv"
    /\ Len(Cands) = 3 /\ resolved = <<2, 3>>
    /\ exc = JsonFailed

\* C7 as stated: with no /XFA value in the object graph, or no Reference
\* whose stream holds the signature, the conversion of every kind fails with
\* the no-data failure and no other.
C7_NotFoundIsNoXmlData ==
    (Ended /\ ext \in Kinds /\ (~HasCandidates \/ Matching(Cands) = {}))
        => (pc = "failed" /\ exc = NoXmlData)

=============================================================================
